---------------------------- MODULE Spec2Model ----------------------------
(***************************************************************************)
(* Model of MovieTracker (src/src/main.rs): a terminal watchlist.  The     *)
(* state is the App (movies, selected, list_state), the persisted file     *)
(* movies.json, the terminal modes and the position of main.               *)
(*                                                                         *)
(* File contents are sequences of JSON tokens.  A token is a record        *)
(*   [k |-> kind, key |-> member name, n |-> number, s |-> characters]     *)
(* kinds: "[" "]" "{" "}" "," "ws" (whitespace, n[2] = indent), "key" (a   *)
(* member name with its colon), "num", "true", "false", "null", "str"      *)
(* (s = the characters between the quotes, escapes not yet decoded) and    *)
(* "junk" (bytes that start no JSON token).                                *)
(***************************************************************************)
EXTENDS Integers, Sequences, FiniteSets, TLC

\* ------------------------------------------------------------- bounds
MaxLen == 3
MaxPartial == 1
RTMaxLen == 2
MaxExternal == 1

\* ---------------------------------------------------------- constants
\* Movie.year is a u32, held here as its two 16-bit halves <<hi, lo>>
\* (value hi * 65536 + lo); a number of a file has any integer as hi.
U16Max == 65535
U32Max == <<U16Max, U16Max>>
IsU32(n) == n[1] >= 0 /\ n[1] <= U16Max /\ n[2] >= 0 /\ n[2] <= U16Max

\* ------------------------------------------------------------- tokens
Tok(kind, key, n, s) == [k |-> kind, key |-> key, n |-> n, s |-> s]
P(kind) == Tok(kind, "", <<0, 0>>, <<>>)
Ws(n) == Tok("ws", "", <<0, n>>, <<>>)
Key(name) == Tok("key", name, <<0, 0>>, <<>>)
Num(n) == Tok("num", "", n, <<>>)
Bool(b) == P(IF b THEN "true" ELSE "false")
Str(s) == Tok("str", "", <<0, 0>>, s)

Min(a, b) == IF a < b THEN a ELSE b

\* A file of the file system: absent, present but unreadable as text
\* (a directory, no read permission, bytes that are not UTF-8), or text.
Absent == [kind |-> "absent", text |-> <<>>]
Unreadable == [kind |-> "unreadable", text |-> <<>>]
TextFile(t) == [kind |-> "text", text |-> t]

\* struct Movie
Movie(year, watched, movie) == [year |-> year, watched |-> watched, movie |-> movie]

\* --------------------------------------------------- serde_json: write
\* Escaping of one character of a string.
EscapeChar_Raw(c) == <<c>>

EscapeChar(c) ==
    IF c = "\"" THEN <<"\\", "\"">>
    ELSE IF c = "\\" THEN <<"\\", "\\">>
    ELSE IF c = "\n" THEN <<"\\", "n">>
    ELSE <<c>>

RECURSIVE Escape(_)
Escape(s) == IF s = <<>> THEN <<>> ELSE EscapeChar(Head(s)) \o Escape(Tail(s))

\* One Movie, pretty-printed at indent level 1 (fields in declaration order).
PrettyMovie(m) ==
    << P("{"), Ws(2), Key("year"), Num(m.year), P(","),
       Ws(2), Key("watched"), Bool(m.watched), P(","),
       Ws(2), Key("movie"), Str(Escape(m.movie)),
       Ws(1), P("}") >>

RECURSIVE PrettyElems(_)
PrettyElems(ms) ==
    IF Len(ms) = 1 THEN PrettyMovie(ms[1])
    ELSE PrettyMovie(ms[1]) \o <<P(","), Ws(1)>> \o PrettyElems(Tail(ms))

\* serde_json::to_string_pretty(&Vec<Movie>)
to_string_pretty(ms) ==
    IF ms = <<>> THEN <<P("["), P("]")>>
    ELSE <<P("["), Ws(1)>> \o PrettyElems(ms) \o <<Ws(0), P("]")>>


\* --------------------------------------------------- serde_json: read
Fail == [ok |-> FALSE, pos |-> 0, val |-> <<>>]
Ok(pos, val) == [ok |-> TRUE, pos |-> pos, val |-> val]

\* Decoding of the characters of a string token; a raw quote or control
\* character, or a backslash that starts no escape, is a syntax error.
RECURSIVE Unescape(_)
Unescape(s) ==
    IF s = <<>> THEN Ok(0, <<>>)
    ELSE IF Head(s) = "\\" THEN
        IF Len(s) < 2 \/ s[2] \notin {"\"", "\\", "n"} THEN Fail
        ELSE LET r == Unescape(SubSeq(s, 3, Len(s)))
                 d == IF s[2] = "n" THEN "\n" ELSE s[2]
             IN IF r.ok THEN Ok(0, <<d>> \o r.val) ELSE Fail
    ELSE IF Head(s) \in {"\"", "\n"} THEN Fail
    ELSE LET r == Unescape(Tail(s))
         IN IF r.ok THEN Ok(0, <<Head(s)>> \o r.val) ELSE Fail

\* Whitespace between tokens is skipped by the reader.
SkipWs(text) == SelectSeq(text, LAMBDA t : t.k # "ws")

ScalarKinds == {"num", "true", "false", "null", "str"}
FieldNames == {"year", "watched", "movie"}

\* Does value token v deserialize as the type of field `name`?
\* year: u32, watched: bool, movie: String; any other member is ignored,
\* whatever its (well-formed) value.
FieldOk_AnyYear(name, v) ==
    CASE name = "year" -> v.k = "num"
      [] name = "watched" -> v.k \in {"true", "false"}
      [] name = "movie" -> v.k = "str" /\ Unescape(v.s).ok
      [] OTHER -> v.k \in ScalarKinds /\ (v.k = "str" => Unescape(v.s).ok)

FieldOk(name, v) ==
    CASE name = "year" -> v.k = "num" /\ IsU32(v.n)
      [] name = "watched" -> v.k \in {"true", "false"}
      [] name = "movie" -> v.k = "str" /\ Unescape(v.s).ok
      [] OTHER -> v.k \in ScalarKinds /\ (v.k = "str" => Unescape(v.s).ok)

NoFields == [have |-> {}, year |-> <<0, 0>>, watched |-> FALSE, movie |-> <<>>]

SetField(acc, name, v) ==
    CASE name = "year" -> [acc EXCEPT !.have = @ \cup {name}, !.year = v.n]
      [] name = "watched" -> [acc EXCEPT !.have = @ \cup {name}, !.watched = (v.k = "true")]
      [] name = "movie" -> [acc EXCEPT !.have = @ \cup {name}, !.movie = Unescape(v.s).val]
      [] OTHER -> acc

\* The members of an object read as a Movie (derived visit_map): a member
\* named twice is an error, so is a field left out; t[pos] is a key.
RECURSIVE ParseMembers(_, _, _)
ParseMembers(t, pos, acc) ==
    IF pos + 2 > Len(t) \/ t[pos].k # "key" THEN Fail
    ELSE LET name == t[pos].key
             v == t[pos + 1]
             sep == t[pos + 2]
         IN IF name \in acc.have \/ ~FieldOk(name, v) THEN Fail
            ELSE LET acc2 == SetField(acc, name, v)
                 IN IF sep.k = "," THEN ParseMembers(t, pos + 3, acc2)
                    ELSE IF sep.k = "}" /\ acc2.have = FieldNames
                         THEN Ok(pos + 3, Movie(acc2.year, acc2.watched, acc2.movie))
                    ELSE Fail

\* A Movie written as an array [year, watched, movie] (derived visit_seq).
ParseTuple(t, pos) ==
    IF pos + 6 > Len(t) THEN Fail
    ELSE IF /\ FieldOk("year", t[pos + 1]) /\ t[pos + 2].k = ","
            /\ FieldOk("watched", t[pos + 3]) /\ t[pos + 4].k = ","
            /\ FieldOk("movie", t[pos + 5]) /\ t[pos + 6].k = "]"
         THEN Ok(pos + 7, Movie(t[pos + 1].n, t[pos + 3].k = "true",
                                Unescape(t[pos + 5].s).val))
    ELSE Fail

\* One element of the array, starting at t[pos].
ParseMovie(t, pos) ==
    IF pos > Len(t) THEN Fail
    ELSE IF t[pos].k = "{" THEN ParseMembers(t, pos + 1, NoFields)
    ELSE IF t[pos].k = "[" THEN ParseTuple(t, pos)
    ELSE Fail

\* The elements of the array from t[pos] on, then "]" and the end of input.
RECURSIVE ParseElems(_, _, _)
ParseElems(t, pos, acc) ==
    LET e == ParseMovie(t, pos)
    IN IF ~e.ok \/ e.pos > Len(t) THEN Fail
       ELSE IF t[e.pos].k = "," THEN ParseElems(t, e.pos + 1, Append(acc, e.val))
       ELSE IF t[e.pos].k = "]" /\ e.pos = Len(t) THEN Ok(e.pos + 1, Append(acc, e.val))
       ELSE Fail

\* serde_json::from_str::<Vec<Movie>>(&contents)
from_str(text) ==
    LET t == SkipWs(text)
    IN IF Len(t) < 2 \/ t[1].k # "[" THEN Fail
       ELSE IF t[2].k = "]" THEN (IF Len(t) = 2 THEN Ok(3, <<>>) ELSE Fail)
       ELSE ParseElems(t, 2, <<>>)

\* ------------------------------------------------------------- App
\* App::load_from_file, as a function of the file at `path`
load_from_file(f) ==
    IF f.kind # "absent"
    THEN IF f.kind = "text"
         THEN IF from_str(f.text).ok THEN from_str(f.text).val ELSE <<>>
         ELSE <<>>
    ELSE <<>>


VARIABLES
    pc,           \* position of main
    movies,       \* App.movies
    selected,     \* App.selected (an index from 0)
    list_state,   \* App.list_state.selected: -1 is None, n is Some(n)
    file,         \* the file at save_path, "movies.json"
    event,        \* what the last poll/read of this iteration delivered
    save_result,  \* the io::Result of the save of this iteration, if any
    should_quit,  \* main's should_quit
    raw_mode,     \* the terminal is in raw mode
    alt_screen,   \* the terminal shows the alternate screen
    teardown,     \* the teardown calls made so far
    header,       \* the (watched, total) of the title bar last drawn
    exit_code,    \* "none" while running, then "ok" or "err"
    external_writes \* writes of the file by other processes since startup

vars == <<pc, movies, selected, list_state, file, event, save_result,
          should_quit, raw_mode, alt_screen, teardown, header, exit_code,
          external_writes>>

\* The App as one value.
App == [movies |-> movies, selected |-> selected, list_state |-> list_state]

\* App::new: the loaded movies, selected 0, list_state.select(Some(0))
new(f) == [movies |-> load_from_file(f), selected |-> 0, list_state |-> 0]

\* What fs::write(path, json) can leave behind: the whole text (Ok); or,
\* on an error, the file as it was (it could not be opened) or a file
\* truncated and holding only the first bytes of the text.
Partials(text) ==
    {TextFile(SubSeq(text, 1, n)) : n \in 0..Min(MaxPartial, Len(text) - 1)}

\* App::save_to_file: the possible (result, file) pairs
save_to_file(ms, f) ==
    {[result |-> "ok", file |-> TextFile(to_string_pretty(ms))]}
    \cup {[result |-> "err", file |-> f]}
    \cup {[result |-> "err", file |-> g] : g \in Partials(to_string_pretty(ms))}

\* The flip of toggle_current (line 76)
flip_All(ms, sel) == [i \in 1..Len(ms) |-> [ms[i] EXCEPT !.watched = ~@]]

flip_SetTrue(ms, sel) == [ms EXCEPT ![sel + 1].watched = TRUE]

flip(ms, sel) == [ms EXCEPT ![sel + 1].watched = ~@]

\* App::toggle_current: the possible outcomes, one per outcome of its save;
\* the io::Result is dropped (let _ =), kept here as `result`
toggle_current_Rollback(app, f) ==
    IF app.movies # <<>>
    THEN LET a == [app EXCEPT !.movies = flip(app.movies, app.selected)]
         IN {[app |-> IF r.result = "ok" THEN a ELSE app,
              file |-> r.file, result |-> r.result] : r \in save_to_file(a.movies, f)}
    ELSE {[app |-> app, file |-> f, result |-> "none"]}

toggle_current_SaveFirst(app, f) ==
    IF app.movies # <<>>
    THEN LET a == [app EXCEPT !.movies = flip(app.movies, app.selected)]
         IN {[app |-> a, file |-> r.file, result |-> r.result]
                : r \in save_to_file(app.movies, f)}
    ELSE {[app |-> app, file |-> f, result |-> "none"]}

toggle_current_Merge(app, f) ==
    IF app.movies # <<>>
    THEN LET disk == load_from_file(f)
             base == IF Len(disk) = Len(app.movies) THEN disk ELSE app.movies
             a == [app EXCEPT !.movies = flip(base, app.selected)]
         IN {[app |-> a, file |-> r.file, result |-> r.result]
                : r \in save_to_file(a.movies, f)}
    ELSE {[app |-> app, file |-> f, result |-> "none"]}

toggle_current_AlwaysSave(app, f) ==
    LET a == IF app.movies # <<>>
             THEN [app EXCEPT !.movies = flip(app.movies, app.selected)]
             ELSE app
    IN {[app |-> a, file |-> r.file, result |-> r.result]
           : r \in save_to_file(a.movies, f)}

toggle_current(app, f) ==
    IF app.movies # <<>>
    THEN LET a == [app EXCEPT !.movies = flip(app.movies, app.selected)]
         IN {[app |-> a, file |-> r.file, result |-> r.result]
                : r \in save_to_file(a.movies, f)}
    ELSE {[app |-> app, file |-> f, result |-> "none"]}

\* App::next
next_NoWrap(app) ==
    IF app.movies # <<>>
    THEN [app EXCEPT !.selected = app.selected + 1, !.list_state = app.selected + 1]
    ELSE app

next_NoSync(app) ==
    IF app.movies # <<>>
    THEN [app EXCEPT !.selected = (app.selected + 1) % Len(app.movies)]
    ELSE app

next(app) ==
    IF app.movies # <<>>
    THEN LET s == (app.selected + 1) % Len(app.movies)
         IN [app EXCEPT !.selected = s, !.list_state = s]
    ELSE app

\* App::previous
previous_NoWrap(app) ==
    IF app.movies # <<>>
    THEN LET s == IF app.selected = 0 THEN 0 ELSE app.selected - 1
         IN [app EXCEPT !.selected = s, !.list_state = s]
    ELSE app

previous_NoGuard(app) ==
    LET s == IF app.selected = 0 THEN Len(app.movies) - 1 ELSE app.selected - 1
    IN [app EXCEPT !.selected = s, !.list_state = s]

previous(app) ==
    IF app.movies # <<>>
    THEN LET s == IF app.selected = 0 THEN Len(app.movies) - 1 ELSE app.selected - 1
         IN [app EXCEPT !.selected = s, !.list_state = s]
    ELSE app

\* App::get_stats
get_stats_Unwatched(ms) ==
    <<Len(SelectSeq(ms, LAMBDA m : ~m.watched)), Len(ms)>>

get_stats(ms) ==
    <<Len(SelectSeq(ms, LAMBDA m : m.watched)), Len(ms)>>


\* ------------------------------------------------- the files at startup
\* The titles and years of the lists the sessions start from: (year, title).
Shows ==
    << [year |-> <<0, 1994>>, movie |-> <<"P", "F">>],
       [year |-> <<0, 0>>, movie |-> <<>>],
       [year |-> U32Max, movie |-> <<"\"", "\\", "\n">>] >>

ShowAt(i) == Shows[((i - 1) % Len(Shows)) + 1]

\* The lists of up to MaxLen records, record i being show i, watched or not.
InitLists ==
    UNION { { [i \in 1..n |-> Movie(ShowAt(i).year, w[i], ShowAt(i).movie)]
                : w \in [1..n -> BOOLEAN] } : n \in 0..MaxLen }

\* One list per length, for the files written by hand in other layouts.
AltLists == {ms \in InitLists : \A i \in 1..Len(ms) : ms[i].watched = (i % 2 = 0)}

RECURSIVE Join(_)
Join(elems) ==
    IF elems = <<>> THEN <<>>
    ELSE IF Len(elems) = 1 THEN elems[1]
    ELSE elems[1] \o <<P(",")>> \o Join(Tail(elems))

Array(elems) == <<P("[")>> \o Join(elems) \o <<P("]")>>

\* {"year":1994,"watched":false,"movie":"PF"}
CompactMovie(m) ==
    << P("{"), Key("year"), Num(m.year), P(","), Key("watched"), Bool(m.watched),
       P(","), Key("movie"), Str(Escape(m.movie)), P("}") >>

\* {"movie":"PF", "rating":null, "watched":false, "year":1994}
ReorderedMovie(m) ==
    << P("{"), Key("movie"), Str(Escape(m.movie)), P(","), Ws(0),
       Key("rating"), P("null"), P(","), Ws(0),
       Key("watched"), Bool(m.watched), P(","), Ws(0),
       Key("year"), Num(m.year), P("}") >>

\* [1994,false,"PF"]
TupleMovie(m) ==
    << P("["), Num(m.year), P(","), Bool(m.watched), P(","),
       Str(Escape(m.movie)), P("]") >>

Compact(ms) == Array([i \in 1..Len(ms) |-> CompactMovie(ms[i])])
Reordered(ms) == Array([i \in 1..Len(ms) |-> ReorderedMovie(ms[i])])
Tuples(ms) == Array([i \in 1..Len(ms) |-> TupleMovie(ms[i])])

\* Texts that are not an array of Movie records.
Good1 == CompactMovie(Movie(<<0, 1994>>, FALSE, <<"P", "F">>))
MalformedTexts ==
    { <<>>,                                                 \* an empty file
      <<P("junk")>>,                         \* no JSON at all
      <<P("{"), P("}")>>,                                   \* an object
      Good1,                                                \* a record, no array
      <<P("["), P("]"), P("junk")>>,         \* trailing bytes
      <<P("[")>> \o Good1,                                  \* cut short
      <<P("[")>> \o Good1 \o <<P(","), P("]")>>,            \* trailing comma
      <<P("["), P("null"), P("]")>>,
      Array(<<Good1, <<P("{"), P("}")>>>>),                 \* no field
      Array(<<<<P("{"), Key("year"), Num(<<0, 1994>>), P(","),
                Key("watched"), P("false"), P("}")>>>>),    \* movie left out
      Array(<<<<P("{"), Key("year"), Num(<<-1, U16Max>>), P(","), Key("watched"), P("false"),
                P(","), Key("movie"), Str(<<>>), P("}")>>>>),
      Array(<<<<P("{"), Key("year"), Num(<<U16Max + 1, 0>>), P(","), Key("watched"),
                P("false"), P(","), Key("movie"), Str(<<>>), P("}")>>>>),
      Array(<<<<P("{"), Key("year"), Str(<<"1">>), P(","), Key("watched"),
                P("false"), P(","), Key("movie"), Str(<<>>), P("}")>>>>),
      Array(<<<<P("{"), Key("year"), Num(<<0, 1>>), P(","), Key("watched"),
                P("null"), P(","), Key("movie"), Str(<<>>), P("}")>>>>),
      Array(<<<<P("{"), Key("year"), Num(<<0, 1>>), P(","), Key("watched"),
                P("true"), P(","), Key("movie"), Str(<<"\\", "q">>), P("}")>>>>),
      Array(<<<<P("{"), Key("year"), Num(<<0, 1>>), P(","), Key("year"), Num(<<0, 1>>), P(","),
                Key("watched"), P("true"), P(","), Key("movie"), Str(<<>>),
                P("}")>>>>),                                \* year twice
      Array(<<<<P("["), Num(<<0, 1>>), P(","), P("true"), P("]")>>>>) }

InitFiles ==
    {Absent, Unreadable}
    \cup {TextFile(t) : t \in MalformedTexts}
    \cup {TextFile(to_string_pretty(ms)) : ms \in InitLists}
    \cup {TextFile(Compact(ms)) : ms \in AltLists}
    \cup {TextFile(Reordered(ms)) : ms \in AltLists}
    \cup {TextFile(Tuples(ms)) : ms \in AltLists}

\* --------------------------------------------------------------- main
Events == {"timeout", "resize", "release", "q", "space", "down", "j", "up", "k", "other"}

Init ==
    /\ pc = "enable_raw"
    /\ movies = <<>>
    /\ selected = 0
    /\ list_state = -1
    /\ file \in InitFiles
    /\ event = "none"
    /\ save_result = "none"
    /\ should_quit = FALSE
    /\ raw_mode = FALSE
    /\ alt_screen = FALSE
    /\ teardown = {}
    /\ header = <<>>
    /\ exit_code = "none"
    /\ external_writes = 0

\* A `?` that returns the error from main.
ExitErr_Ok == pc' = "exited" /\ exit_code' = "ok"

ExitErr == pc' = "exited" /\ exit_code' = "err"

\* enable_raw_mode()?
EnableRaw ==
    /\ pc = "enable_raw"
    /\ \E ok \in BOOLEAN :
          IF ok THEN raw_mode' = TRUE /\ pc' = "enter_alt" /\ UNCHANGED exit_code
          ELSE ExitErr /\ UNCHANGED raw_mode
    /\ UNCHANGED <<external_writes, movies, selected, list_state, file, event, save_result,
                   should_quit, alt_screen, teardown, header>>

\* stdout().execute(EnterAlternateScreen)?
EnterAlt ==
    /\ pc = "enter_alt"
    /\ \E ok \in BOOLEAN :
          IF ok THEN alt_screen' = TRUE /\ pc' = "new_terminal" /\ UNCHANGED exit_code
          ELSE ExitErr /\ UNCHANGED alt_screen
    /\ UNCHANGED <<external_writes, movies, selected, list_state, file, event, save_result,
                   should_quit, raw_mode, teardown, header>>

\* Terminal::new(CrosstermBackend::new(stdout()))?
NewTerminal ==
    /\ pc = "new_terminal"
    /\ \E ok \in BOOLEAN :
          IF ok THEN pc' = "app_new" /\ UNCHANGED exit_code ELSE ExitErr
    /\ UNCHANGED <<external_writes, movies, selected, list_state, file, event, save_result,
                   should_quit, raw_mode, alt_screen, teardown, header>>

\* let mut app = App::new(save_path); let mut should_quit = false;
AppNew ==
    /\ pc = "app_new"
    /\ movies' = new(file).movies
    /\ selected' = new(file).selected
    /\ list_state' = new(file).list_state
    /\ should_quit' = FALSE
    /\ pc' = "draw"
    /\ UNCHANGED <<external_writes, file, event, save_result, raw_mode, alt_screen, teardown,
                   header, exit_code>>

\* frame.render_stateful_widget(list, chunks[1], &mut app.list_state): what
\* the List widget can leave in the selection it is handed.  A selection
\* inside the list is kept; one past the end is moved to the last row; with
\* no rows the widget keeps it or clears it, depending on its version.
render_list(ls, n) ==
    IF n = 0 THEN {ls, -1}
    ELSE IF ls >= n THEN {n - 1}
    ELSE {ls}

\* terminal.draw(|frame| ...)?: the closure renders the title from
\* get_stats; an error comes before the closure ran or after it.
Draw ==
    /\ pc = "draw"
    /\ \E outcome \in {"ok", "err_before", "err_after"} :
          /\ header' = IF outcome = "err_before" THEN header ELSE get_stats(movies)
          /\ list_state' \in IF outcome = "err_before" THEN {list_state}
                              ELSE render_list(list_state, Len(movies))
          /\ IF outcome = "ok" THEN pc' = "poll" /\ UNCHANGED exit_code ELSE ExitErr
    /\ event' = "none"
    /\ save_result' = "none"
    /\ UNCHANGED <<external_writes, movies, selected, file, should_quit,
                   raw_mode, alt_screen, teardown>>

\* event::poll(100 ms)? and, when it says true, event::read()?
Poll ==
    /\ pc = "poll"
    /\ \/ \E e \in Events : event' = e /\ pc' = "handle" /\ UNCHANGED exit_code
       \/ \E e \in {"poll_err", "read_err"} : event' = e /\ ExitErr
    /\ UNCHANGED <<external_writes, movies, selected, list_state, file, save_result, should_quit,
                   raw_mode, alt_screen, teardown, header>>

\* KeyCode::Char('q') => should_quit = true; the while condition ends the loop
KeyQuit_Continue ==
    /\ pc = "handle" /\ event = "q"
    /\ should_quit' = TRUE
    /\ pc' = "draw"
    /\ UNCHANGED <<external_writes, movies, selected, list_state, file, event,
                   save_result, raw_mode, alt_screen, teardown, header, exit_code>>

KeyQuit ==
    /\ pc = "handle" /\ event = "q"
    /\ should_quit' = TRUE
    /\ pc' = "disable_raw"
    /\ UNCHANGED <<external_writes, movies, selected, list_state, file, event, save_result,
                   raw_mode, alt_screen, teardown, header, exit_code>>

\* KeyCode::Char(' ') => app.toggle_current()
KeyToggle ==
    /\ pc = "handle" /\ event = "space"
    /\ \E o \in toggle_current(App, file) :
          /\ movies' = o.app.movies
          /\ selected' = o.app.selected
          /\ list_state' = o.app.list_state
          /\ file' = o.file
          /\ save_result' = o.result
    /\ pc' = "draw"
    /\ UNCHANGED <<external_writes, event, should_quit, raw_mode, alt_screen, teardown, header,
                   exit_code>>

\* KeyCode::Down | KeyCode::Char('j') => app.next()
KeyNext_AutoSave ==
    /\ pc = "handle" /\ event \in {"down", "j"}
    /\ movies' = next(App).movies
    /\ selected' = next(App).selected
    /\ list_state' = next(App).list_state
    /\ \E r \in save_to_file(movies, file) : file' = r.file /\ save_result' = r.result
    /\ pc' = "draw"
    /\ UNCHANGED <<external_writes, event, should_quit, raw_mode, alt_screen,
                   teardown, header, exit_code>>

KeyNext ==
    /\ pc = "handle" /\ event \in {"down", "j"}
    /\ movies' = next(App).movies
    /\ selected' = next(App).selected
    /\ list_state' = next(App).list_state
    /\ pc' = "draw"
    /\ UNCHANGED <<external_writes, file, event, save_result, should_quit, raw_mode, alt_screen,
                   teardown, header, exit_code>>

\* KeyCode::Up | KeyCode::Char('k') => app.previous()
KeyPrevious ==
    /\ pc = "handle" /\ event \in {"up", "k"}
    /\ movies' = previous(App).movies
    /\ selected' = previous(App).selected
    /\ list_state' = previous(App).list_state
    /\ pc' = "draw"
    /\ UNCHANGED <<external_writes, file, event, save_result, should_quit, raw_mode, alt_screen,
                   teardown, header, exit_code>>

\* No event in the poll window, an event that is no key, a key that is
\* not a press, or any other key: nothing.
NoKey_SkipDraw ==
    /\ pc = "handle" /\ event \in {"timeout", "resize", "release", "other"}
    /\ pc' = "poll"
    /\ UNCHANGED <<external_writes, movies, selected, list_state, file, event,
                   save_result, should_quit, raw_mode, alt_screen, teardown,
                   header, exit_code>>

NoKey ==
    /\ pc = "handle" /\ event \in {"timeout", "resize", "release", "other"}
    /\ pc' = "draw"
    /\ UNCHANGED <<external_writes, movies, selected, list_state, file, event, save_result,
                   should_quit, raw_mode, alt_screen, teardown, header, exit_code>>

\* disable_raw_mode()?
DisableRaw ==
    /\ pc = "disable_raw"
    /\ teardown' = teardown \cup {"disable_raw_mode"}
    /\ \E ok \in BOOLEAN :
          IF ok THEN raw_mode' = FALSE /\ pc' = "leave_alt" /\ UNCHANGED exit_code
          ELSE ExitErr /\ UNCHANGED raw_mode
    /\ UNCHANGED <<external_writes, movies, selected, list_state, file, event, save_result,
                   should_quit, alt_screen, header>>

\* stdout().execute(LeaveAlternateScreen)?; Ok(())
LeaveAlt ==
    /\ pc = "leave_alt"
    /\ teardown' = teardown \cup {"LeaveAlternateScreen"}
    /\ \E ok \in BOOLEAN :
          IF ok THEN alt_screen' = FALSE /\ pc' = "exited" /\ exit_code' = "ok"
          ELSE ExitErr /\ UNCHANGED alt_screen
    /\ UNCHANGED <<external_writes, movies, selected, list_state, file, event, save_result,
                   should_quit, raw_mode, header>>

Next ==
    \/ EnableRaw \/ EnterAlt \/ NewTerminal \/ AppNew
    \/ Draw \/ Poll
    \/ KeyQuit \/ KeyToggle \/ KeyNext \/ KeyPrevious \/ NoKey
    \/ DisableRaw \/ LeaveAlt

Spec == Init /\ [][Next]_vars

\* ------------------------------------------------- another writer
\* What another process can leave at save_path while this one runs: no
\* file, an empty file, or a watchlist of its own.
ExternalFiles ==
    {Absent, TextFile(<<>>),
     TextFile(to_string_pretty(<<Movie(<<0, 7>>, TRUE, <<"x">>)>>))}

\* Another process writes or removes movies.json after the initial load.
ExternalWrite ==
    /\ pc \in {"draw", "poll", "handle"}
    /\ external_writes < MaxExternal
    /\ \E f \in ExternalFiles : f # file /\ file' = f
    /\ external_writes' = external_writes + 1
    /\ UNCHANGED <<pc, movies, selected, list_state, event, save_result,
                   should_quit, raw_mode, alt_screen, teardown, header, exit_code>>

NextExt == Next \/ ExternalWrite

SpecExt == Init /\ [][NextExt]_vars


\* ------------------------------------------- save and reload, in isolation
\* The records and lists that are saved and loaded back.
RTYears == {<<0, 0>>, <<0, 1994>>, U32Max}
RTTitles == {<<>>, <<"P", "F">>, <<"\"", "\\", "\n">>}
RTRecords == {Movie(y, w, t) : y \in RTYears, w \in BOOLEAN, t \in RTTitles}
RTLists == UNION {[1..n -> RTRecords] : n \in 0..RTMaxLen}
RTFiles == {Absent, Unreadable, TextFile(<<P("junk")>>),
            TextFile(to_string_pretty(<<Movie(<<0, 7>>, TRUE, <<"x">>)>>))}

RTInit ==
    /\ pc = "rt_save"
    /\ movies \in RTLists
    /\ selected = 0
    /\ list_state = 0
    /\ file \in RTFiles
    /\ event = "none"
    /\ save_result = "none"
    /\ should_quit = FALSE
    /\ raw_mode = FALSE
    /\ alt_screen = FALSE
    /\ teardown = {}
    /\ header = <<>>
    /\ exit_code = "none"
    /\ external_writes = 0

\* app.save_to_file()
RTSave ==
    /\ pc = "rt_save"
    /\ \E r \in save_to_file(movies, file) : file' = r.file /\ save_result' = r.result
    /\ pc' = "rt_load"
    /\ UNCHANGED <<external_writes, movies, selected, list_state, event, should_quit, raw_mode,
                   alt_screen, teardown, header, exit_code>>

\* App::load_from_file(path) of the same path
RTLoad ==
    /\ pc = "rt_load"
    /\ movies' = load_from_file(file)
    /\ pc' = "rt_done"
    /\ UNCHANGED <<external_writes, selected, list_state, file, event, save_result, should_quit,
                   raw_mode, alt_screen, teardown, header, exit_code>>

RTNext == RTSave \/ RTLoad

SpecRT == RTInit /\ [][RTNext]_vars

\* ------------------------------------------------------------- claims
\* The state right after App::new: the loop is entered, nothing drawn yet.
AtStartup == pc = "draw" /\ header = <<>>

\* A toggle key is being handled on a non-empty list.
Toggling == pc = "handle" /\ event = "space" /\ movies # <<>>

\* C1: in every reachable state a non-empty movie sequence has
\* 0 <= selected < length, and selected is 0 at startup.
C1_SelectedInRange ==
    /\ movies # <<>> => selected >= 0 /\ selected < Len(movies)
    /\ AtStartup => selected = 0

\* C1 witness: Next has just wrapped from the last index of a full list.
C1_Witness ==
    /\ pc = "draw" /\ event = "down"
    /\ Len(movies) = MaxLen /\ selected = 0 /\ header # <<>>

\* C2: a ToggleCurrent on a non-empty list whose save succeeds leaves the
\* file holding exactly the in-memory sequence, flipped flag included.
C2_SavedToggleIsOnDisk ==
    [][(Toggling /\ save_result' = "ok") =>
          /\ file'.kind = "text"
          /\ load_from_file(file') = movies'
          /\ Len(movies') = Len(movies)
          /\ movies'[selected + 1].watched = ~movies[selected + 1].watched]_vars

\* C2 witness: one record, unwatched in the file at startup, now watched in
\* memory and on disk after a toggle whose save succeeded.
C2_Witness ==
    /\ pc = "draw" /\ event = "space" /\ save_result = "ok"
    /\ Len(movies) = 1 /\ movies[1].watched
    /\ movies = load_from_file(file)

\* C3 (as stated): when the save of a toggle fails the flag stays flipped,
\* the file is not updated, the loop stays Running, and memory and disk
\* then differ.
C3_Original ==
    [][(Toggling /\ save_result' = "err") =>
          /\ movies'[selected + 1].watched = ~movies[selected + 1].watched
          /\ file' = file
          /\ pc' = "draw" /\ exit_code' = "none" /\ ~should_quit'
          /\ load_from_file(file') # movies']_vars

\* C3 (amended): when the save of a toggle fails the flag stays flipped, the
\* loop stays Running with no error; the file is left as it was or cut to a
\* proper prefix of the new text, and memory and disk differ afterwards
\* whenever they agreed before the toggle.
C3_FailedSaveKeepsFlip ==
    [][(Toggling /\ save_result' = "err") =>
          /\ movies'[selected + 1].watched = ~movies[selected + 1].watched
          /\ pc' = "draw" /\ exit_code' = "none" /\ ~should_quit'
          /\ \/ file' = file
             \/ /\ file'.kind = "text"
                /\ Len(file'.text) < Len(to_string_pretty(movies'))
                /\ file'.text = SubSeq(to_string_pretty(movies'), 1, Len(file'.text))
          /\ load_from_file(file) = movies => load_from_file(file') # movies']_vars

\* C3 witness: a failed save has left memory and disk equal: the second of
\* two failed toggles of the same record, the file never rewritten.
C3_Witness ==
    /\ pc = "draw" /\ event = "space" /\ save_result = "err"
    /\ Len(movies) = 2 /\ selected = 1
    /\ load_from_file(file) = movies

\* n calls of next
RECURSIVE NextN(_, _)
NextN(app, n) == IF n = 0 THEN app ELSE NextN(next(app), n - 1)

\* C4: on a list of length L >= 1 Next moves selected to (selected + 1) mod L,
\* L calls of Next return to the starting index, and Previous moves from 0
\* to L - 1 and otherwise to selected - 1.
C4_NavigationWraps ==
    [][(pc = "handle" /\ movies # <<>>) =>
          LET L == Len(movies)
          IN /\ event \in {"down", "j"} =>
                   /\ selected' = (selected + 1) % L
                   /\ NextN(App, L).selected = selected
             /\ event \in {"up", "k"} =>
                   selected' = IF selected = 0 THEN L - 1 ELSE selected - 1]_vars

\* C4 witness: Previous has just wrapped from index 0 to the last index.
C4_Witness ==
    /\ pc = "draw" /\ event = "up"
    /\ Len(movies) = MaxLen /\ selected = MaxLen - 1

\* C5: on an empty sequence ToggleCurrent, Next and Previous do not fail,
\* leave the sequence empty and leave selected unchanged.
C5_EmptyListSafety ==
    [][(pc = "handle" /\ movies = <<>>
          /\ event \in {"space", "down", "j", "up", "k"}) =>
          /\ movies' = <<>>
          /\ selected' = selected
          /\ pc' = "draw" /\ exit_code' = "none"]_vars

\* C5 witness: a toggle key was handled on an empty list after an earlier
\* iteration of the loop.
C5_Witness ==
    /\ pc = "draw" /\ event = "space" /\ movies = <<>>
    /\ header = <<0, 0>> /\ save_result = "none"

\* C6: two ToggleCurrent calls with no navigation in between restore the
\* record's watched value, whatever the outcomes of the two saves.
C6_DoubleToggleRestores ==
    Toggling =>
        \A o1 \in toggle_current(App, file) :
            \A o2 \in toggle_current(o1.app, o1.file) :
                /\ o1.app.movies[selected + 1].watched
                      = ~movies[selected + 1].watched
                /\ o2.app.selected = selected
                /\ o2.app.movies[selected + 1].watched
                      = movies[selected + 1].watched

\* C6 witness: the only record of a list was toggled twice, both saves
\* failing with the file untouched: memory is back at the value on disk.
C6_Witness ==
    /\ pc = "draw" /\ event = "space" /\ save_result = "err"
    /\ Len(movies) = 1 /\ ~movies[1].watched
    /\ file.kind = "text" /\ file.text = to_string_pretty(movies)

\* C7: Load never fails the caller: an absent, unreadable or unparsable
\* file yields an empty sequence and the loop is entered; a parsable file
\* yields the decoded records in order.
C7_LoadNeverFails ==
    [][pc = "app_new" =>
          /\ pc' = "draw" /\ exit_code' = "none"
          /\ file.kind \in {"absent", "unreadable"} => movies' = <<>>
          /\ file.kind = "text" =>
                /\ file.text \in MalformedTexts => movies' = <<>>
                /\ ~from_str(file.text).ok => movies' = <<>>
                /\ \A ms \in InitLists :
                      file.text \in {to_string_pretty(ms), Compact(ms),
                                     Reordered(ms), Tuples(ms)}
                          => movies' = ms]_vars

\* C7 witness: the program is Running with an empty list after loading a
\* file whose text is not an array of Movie records.
C7_Witness ==
    /\ AtStartup /\ movies = <<>>
    /\ file.kind = "text" /\ file.text \in MalformedTexts

\* C8: once raw mode was entered, every exit of the process has attempted
\* both teardown calls (leaving raw mode and the alternate screen).
C8_TeardownOnEveryExit ==
    (pc = "exited" /\ (raw_mode \/ alt_screen \/ teardown # {}))
        => teardown = {"disable_raw_mode", "LeaveAlternateScreen"}

\* C9: Stats is (number of watched records, length) with
\* 0 <= watched <= total, and the call (made by every redraw) changes
\* neither the sequence, the selection nor the file.
C9_StatsCorrect ==
    [][/\ get_stats(movies)
            = <<Cardinality({i \in 1..Len(movies) : movies[i].watched}), Len(movies)>>
       /\ get_stats(movies)[1] >= 0 /\ get_stats(movies)[1] <= get_stats(movies)[2]
       /\ pc = "draw" =>
             /\ pc' = "poll" => header' = <<Cardinality({i \in 1..Len(movies) :
                                                movies[i].watched}), Len(movies)>>
             /\ movies' = movies /\ selected' = selected /\ file' = file]_vars

\* C9 witness: the title bar shows 2/3 for a list whose first record is
\* unwatched and whose other two are watched.
C9_Witness ==
    /\ pc = "poll" /\ header = <<2, 3>>
    /\ Len(movies) = 3 /\ ~movies[1].watched /\ movies[2].watched /\ movies[3].watched

\* C10: a successful Save of any sequence (N >= 0 records) followed by a
\* Load of the same path yields the sequence saved, in content and order.
C10_RoundTrip ==
    [][(pc = "rt_load" /\ save_result = "ok") => movies' = movies]_vars

\* C10 witness: two different records, one with a title that needs
\* escaping and the largest year, were saved and loaded back.
C10_Witness ==
    /\ pc = "rt_done" /\ save_result = "ok"
    /\ Len(movies) = 2 /\ movies[1] # movies[2]
    /\ movies[1].movie = <<"\"", "\\", "\n">> /\ movies[1].year = U32Max
    /\ file.text = to_string_pretty(movies)


\* The loop is Running: between App::new and the quit key.
InLoop == pc \in {"draw", "poll", "handle"}

\* C11: the loop has the states Running and Quitting (should_quit).  From
\* Running the quit key leads to Quitting with no model action; the toggle,
\* next and previous keys apply exactly their model operation and stay
\* Running; any other key or no event changes nothing and stays Running;
\* Quitting is terminal: no model operation or save follows the quit key.
C11_LoopStateMachine ==
    [][/\ should_quit \in BOOLEAN /\ (InLoop => ~should_quit)
       /\ pc = "handle" =>
             /\ event = "q" =>
                   /\ should_quit' /\ pc' = "disable_raw"
                   /\ UNCHANGED <<movies, selected, list_state, file>>
             /\ event = "space" =>
                   /\ ~should_quit' /\ pc' = "draw"
                   /\ [app |-> App', file |-> file', result |-> save_result']
                         \in toggle_current(App, file)
             /\ event \in {"down", "j"} =>
                   ~should_quit' /\ pc' = "draw" /\ App' = next(App) /\ file' = file
             /\ event \in {"up", "k"} =>
                   ~should_quit' /\ pc' = "draw" /\ App' = previous(App) /\ file' = file
             /\ event \in {"timeout", "resize", "release", "other"} =>
                   /\ ~should_quit' /\ pc' = "draw"
                   /\ UNCHANGED <<movies, selected, list_state, file>>
       /\ should_quit' # should_quit => pc = "handle" /\ event = "q"
       /\ should_quit =>
             /\ pc' \notin {"draw", "poll", "handle"}
             /\ UNCHANGED <<movies, selected, list_state, file, save_result,
                            should_quit>>]_vars

\* C11 witness: the quit key was pressed while memory and disk differed
\* (after a failed save); the loop is left and nothing was saved.
C11_Witness ==
    /\ pc = "disable_raw" /\ should_quit /\ event = "q"
    /\ movies # <<>> /\ load_from_file(file) # movies

\* C12 (as stated): once the quit key was pressed the process exits with
\* success, and only failures of setup before the loop exit with an error.
C12_Original ==
    [][(pc' = "exited" /\ pc # "exited") =>
          /\ should_quit => exit_code' = "ok"
          /\ exit_code' = "err" => pc \in {"enable_raw", "enter_alt", "new_terminal"}]_vars

\* C12 (amended): the process exits with success exactly when the quit key
\* was pressed and both teardown calls succeeded; it exits with an error on
\* a failure of terminal setup before the loop, of a redraw or of the input
\* poll/read inside it, or of a teardown call after it; no key handler (a
\* failed save included) ends the process.
C12_ExitCodes ==
    [][/\ (pc' = "exited" /\ pc # "exited") =>
             /\ exit_code' \in {"ok", "err"}
             /\ exit_code' = "ok" <=>
                   /\ pc = "leave_alt" /\ should_quit
                   /\ ~raw_mode' /\ ~alt_screen'
                   /\ teardown' = {"disable_raw_mode", "LeaveAlternateScreen"}
             /\ exit_code' = "err" =>
                   pc \in {"enable_raw", "enter_alt", "new_terminal", "draw",
                           "poll", "disable_raw", "leave_alt"}
       /\ pc = "handle" => pc' # "exited" /\ exit_code' = "none"
       /\ pc' # "exited" => exit_code' = "none"]_vars

\* C12 witness: the process has exited with success after the quit key and
\* both teardown calls.
C12_Witness ==
    /\ pc = "exited" /\ exit_code = "ok" /\ should_quit /\ event = "q"
    /\ ~raw_mode /\ ~alt_screen /\ movies # <<>>

\* C13: every iteration of the loop redraws exactly once before the next
\* poll, event or not: a poll is reached only by a redraw, a handled event
\* leads to a redraw (or out of the loop), and what is on screen when a key
\* is read is the model as it then is.
C13_OneRedrawPerPoll ==
    [][/\ pc' = "poll" => pc = "draw"
       /\ pc = "draw" => pc' \in {"poll", "exited"}
       /\ pc = "poll" => pc' \in {"handle", "exited"} /\ header = get_stats(movies)
       /\ pc = "handle" =>
             /\ pc' \in {"draw", "disable_raw"}
             /\ pc' = "draw" <=> ~should_quit'
       /\ (pc = "draw" /\ pc' = "poll") =>
             /\ header' = get_stats(movies')
             /\ movies' # <<>> => list_state' = selected']_vars

\* C13 witness: a poll is about to read a key and the title bar shows the
\* flags as toggled in memory, which the file does not hold.
C13_Witness ==
    /\ pc = "poll" /\ header = <<MaxLen, MaxLen>>
    /\ Len(movies) = MaxLen /\ load_from_file(file) # movies

\* C14: ToggleCurrent on a non-empty list changes exactly the watched flag
\* of the record at selected (length, order, years, titles, the other
\* flags and selected stay), and the length never changes in a session.
C14_ToggleFrame ==
    [][/\ Toggling =>
             /\ Len(movies') = Len(movies)
             /\ selected' = selected
             /\ \A i \in 1..Len(movies) :
                   /\ movies'[i].year = movies[i].year
                   /\ movies'[i].movie = movies[i].movie
                   /\ (movies'[i].watched = movies[i].watched) <=> (i # selected + 1)
       /\ pc \notin {"enable_raw", "enter_alt", "new_terminal", "app_new"} =>
             Len(movies') = Len(movies)]_vars

\* C14 witness: the middle record of a full list has just been toggled to
\* watched, its neighbours still unwatched.
C14_Witness ==
    /\ pc = "draw" /\ event = "space" /\ Len(movies) = MaxLen /\ selected = 1
    /\ movies[2].watched /\ ~movies[1].watched /\ ~movies[MaxLen].watched

\* C15: Next and Previous change only the selection: the sequence and the
\* file stay and no save is made; the quit key, other keys and poll
\* timeouts change neither the sequence, the selection nor the file.
C15_NavigationFrame ==
    [][/\ (pc = "handle" /\ event # "space") =>
             /\ movies' = movies /\ file' = file
             /\ save_result' = "none"
             /\ event \notin {"down", "j", "up", "k"} => selected' = selected
       /\ pc = "poll" => movies' = movies /\ file' = file /\ selected' = selected]_vars

\* C15 witness: Next has moved the selection of a two-record list whose
\* file still holds what memory holds.
C15_Witness ==
    /\ pc = "draw" /\ event = "j" /\ selected = 1 /\ save_result = "none"
    /\ Len(movies) = 2 /\ load_from_file(file) = movies

\* C16: when another writer changes the file between the initial load and a
\* toggle, the next successful save overwrites it with the whole in-memory
\* sequence of this process; the change is not merged into memory or disk.
C16_LastWriterWins ==
    [][/\ (Toggling /\ save_result' = "ok") =>
             /\ movies' = flip(movies, selected)
             /\ file' = TextFile(to_string_pretty(movies'))
       /\ external_writes' # external_writes =>
             UNCHANGED <<pc, movies, selected, list_state, save_result,
                         should_quit, exit_code>>
       /\ (InLoop /\ ~Toggling) => movies' = movies]_vars

\* C16 witness: after a write by another process, a toggle's save has
\* succeeded and the file holds this process's list.
C16_Witness ==
    /\ pc = "draw" /\ event = "space" /\ save_result = "ok"
    /\ external_writes > 0 /\ movies # <<>>
    /\ file = TextFile(to_string_pretty(movies))

\* C17: when the startup load gave an empty sequence no key event ever
\* writes the file: a malformed or unreadable file is never overwritten.
C17_EmptyNeverWrites ==
    [][(pc = "app_new" \/ movies = <<>>) =>
          /\ file' = file
          /\ pc # "app_new" => movies' = <<>> /\ save_result' = "none"]_vars

\* C17 witness: the toggle key was handled in a session that loaded a
\* malformed, non-empty file, and the file is as it was.
C17_Witness ==
    /\ pc = "draw" /\ event = "space" /\ movies = <<>>
    /\ file.kind = "text" /\ file.text \in MalformedTexts /\ file.text # <<>>

\* C18: on any list, empty or not, Next then Previous and Previous then
\* Next each restore the selection.
C18_NextPreviousInverse ==
    InLoop =>
        /\ previous(next(App)).selected = selected
        /\ next(previous(App)).selected = selected
        /\ previous(next(App)).movies = movies

\* C18 witness: Previous has just brought the selection of a full list back
\* to index 0.
C18_Witness ==
    /\ pc = "draw" /\ event = "k" /\ selected = 0 /\ Len(movies) = MaxLen
    /\ header = <<0, MaxLen>>

\* C19: on a non-empty list the selection held by list_state (the row the
\* List widget highlights) equals selected, after construction and after
\* every model operation.
C19_HighlightIsSelected ==
    movies # <<>> => list_state = selected

\* C19 witness: after a Previous that wrapped and the redraw that followed,
\* list_state holds the last index, as selected does.
C19_Witness ==
    /\ pc = "poll" /\ Len(movies) = 2 /\ selected = 1 /\ list_state = 1
    /\ header = <<2, 2>>

=============================================================================
